---- MODULE Spec2Model ----
(***************************************************************************)
(* Model of the MCCI Catena SHT3x driver (src/lib/Catena-SHT3x.cpp).       *)
(*                                                                         *)
(* The driver object holds only configuration (bus address, m_noCrc,       *)
(* debug flag).  Every public method is one action: it draws the answers   *)
(* of the two-wire transport (end-of-transmission status, byte counts,     *)
(* response bytes) from small sets, runs the method's code, and records    *)
(* what the caller and the bus observed: the return value, the output      *)
(* parameters before and after, the sequence of transport calls and        *)
(* delays, and the debug text.                                             *)
(***************************************************************************)
EXTENDS Integers, Sequences, FiniteSets, TLC

VARIABLES
    this,       \* the driver object: m_addr (getAddress(); negative is
                \* Address::Error), m_noCrc (skip the integrity check) and
                \* m_fDebug (isDebug())
    op,         \* name of the method called last ("none" after construction)
    arg,        \* its argument: a Repeatability, a Command, or "-"
    ret,        \* its return value
    pre,        \* output parameters t, rh as the caller held them before the call
    out,        \* output parameters t, rh after the call
    wireLog,    \* transport calls and delays made by the call, in order
    serialLog,  \* debug lines printed by the call, in order
    oob         \* the call stored a byte past the end of its buffer

vars == <<this, op, arg, ret, pre, out, wireLog, serialLog, oob>>

(***************************************************************************)
(* Bounds of the model.                                                    *)
(***************************************************************************)
\* how many bytes more than requested the transport may report as available
MaxExtra == 1

(***************************************************************************)
(* 8-bit and 16-bit arithmetic.                                            *)
(***************************************************************************)
Pow2(n) == IF n = 0 THEN 1 ELSE IF n = 1 THEN 2 ELSE IF n = 2 THEN 4
           ELSE IF n = 3 THEN 8 ELSE IF n = 4 THEN 16 ELSE IF n = 5 THEN 32
           ELSE IF n = 6 THEN 64 ELSE 128

Bit(x, n) == (x \div Pow2(n)) % 2

\* a ^ b on 8-bit operands
Xor(a, b) ==
    LET X(n) == IF Bit(a, n) = Bit(b, n) THEN 0 ELSE Pow2(n)
    IN  X(0) + X(1) + X(2) + X(3) + X(4) + X(5) + X(6) + X(7)

\* std::uint8_t(x >> 8) and std::uint8_t(x & 0xFF) of a 16-bit x
HiByte(x) == (x \div 256) % 256
LoByte(x) == x % 256


Min(a, b) == IF a < b THEN a ELSE b

(***************************************************************************)
(* Types declared in Catena-SHT3x.h.                                       *)
(***************************************************************************)
\* Repeatability values a caller may pass; "Invalid" is any value outside
\* the enumeration (static_cast of an out-of-range integer).
Repeatabilities == {"Low", "Medium", "High", "Invalid"}

\* Address::A, Address::B and Address::Error
Addresses == {68, 69, -1}

\* The commands the model uses.  The opcode is the enumerator's 16-bit value.
Commands == {"Error", "SoftReset", "GetStatus", "Break", "Fetch",
             "ModeNoStretchHigh", "ModeNoStretchMedium", "ModeNoStretchLow",
             "ModeClockStretchHigh",
             "Mode0_5High", "Mode1Medium", "Mode10Low"}

Opcode(c) ==
    CASE c = "Error"                -> 0
      [] c = "SoftReset"            -> 12450   \* 0x30A2
      [] c = "GetStatus"            -> 62253   \* 0xF32D
      [] c = "Break"                -> 12435   \* 0x3093
      [] c = "Fetch"                -> 57344   \* 0xE000
      [] c = "ModeNoStretchHigh"    -> 9216    \* 0x2400
      [] c = "ModeNoStretchMedium"  -> 9227    \* 0x240B
      [] c = "ModeNoStretchLow"     -> 9238    \* 0x2416
      [] c = "ModeClockStretchHigh" -> 11270   \* 0x2C06
      [] c = "Mode0_5High"          -> 8242    \* 0x2032
      [] c = "Mode1Medium"          -> 8486    \* 0x2126
      [] c = "Mode10Low"            -> 10026   \* 0x272A

\* getCommand(Periodicity::Single, r, ClockStretching::Disabled): the
\* single-shot row of the command table; Command::Error when r is not a
\* Repeatability.
getCommand(p, r, s) ==
    IF p = "Single" /\ s = "Disabled"
    THEN CASE r = "High"   -> "ModeNoStretchHigh"
           [] r = "Medium" -> "ModeNoStretchMedium"
           [] r = "Low"    -> "ModeNoStretchLow"
           [] OTHER        -> "Error"
    ELSE "Error"

\* getPeriodicity(c): the measurement rate a command selects.
getPeriodicity(c) ==
    CASE c \in {"ModeNoStretchHigh", "ModeNoStretchMedium", "ModeNoStretchLow",
                "ModeClockStretchHigh"} -> "Single"
      [] c = "Mode0_5High" -> "HalfHz"
      [] c = "Mode1Medium" -> "OneHz"
      [] c = "Mode10Low"   -> "TenHz"
      [] OTHER             -> "Invalid"

\* PeriodicityToMillis(p): milliseconds between measurements, 0 when p is
\* not a periodic rate.
PeriodicityToMillis(p) ==
    CASE p = "HalfHz" -> 2000
      [] p = "OneHz"  -> 1000
      [] p = "TenHz"  -> 100
      [] OTHER        -> 0

\* Status_t(bits) is a valid status; Status_t() is the invalid one.
Status_t(bits) == [valid |-> TRUE, bits |-> bits]
Status_t_invalid == [valid |-> FALSE, bits |-> 0]
isValid(s) == s.valid
isHeaterOn(s) == (s.bits \div 8192) % 2 = 1

\* Values of the output parameters.  A float is kept exactly, as the
\* numerator of a fraction over 65535; NAN is a value of its own.  A raw
\* 16-bit fraction is kept as itself.
Num(n) == [nan |-> FALSE, num |-> n]
NAN == [nan |-> TRUE, num |-> 0]
rawTtoCelsius(tfrac) == Num(175 * tfrac - 45 * 65535)
rawRHtoPercent(rhfrac) == Num(100 * rhfrac)

(***************************************************************************)
(* cSHT_3x::crc                                                            *)
(***************************************************************************)
crcTable == <<0, 49, 98, 83, 196, 245, 166, 151,
              185, 136, 219, 234, 125, 76, 31, 46>>

\* the default value of crc()'s third parameter
crcInit == 255

\* Faulty variant of crcStep whose second nibble index leaves out the shift
\* of crc8 (p = (crc8 ^ b) & 0xF).  C13_CrcMatchesReference must reject it.
crcStep_NoShift(crc8, b) ==
    LET p1 == Xor(b, crc8) \div 16
        c1 == Xor((crc8 * 16) % 256, crcTable[p1 + 1])
        p2 == Xor(c1, b) % 16
    IN  Xor((c1 * 16) % 256, crcTable[p2 + 1])

\* one pass of the loop body: both nibbles of byte b
crcStep(crc8, b) ==
    LET p1 == Xor(b, crc8) \div 16
        c1 == Xor((crc8 * 16) % 256, crcTable[p1 + 1])
        p2 == Xor(c1 \div 16, b) % 16
    IN  Xor((c1 * 16) % 256, crcTable[p2 + 1])

RECURSIVE crc(_, _, _)
crc(buf, nBuf, crc8) ==
    IF nBuf = 0 THEN crc8
    ELSE crc(Tail(buf), nBuf - 1, crcStep(crc8, Head(buf)))

(***************************************************************************)
(* The transport (TwoWire), the delay primitive and the debug sink, as the *)
(* driver uses them.  Each call is recorded as an event: x and y are the   *)
(* call's arguments, r is what it returned.                                *)
(***************************************************************************)
Ev(call, x, y, r) == [call |-> call, x |-> x, y |-> y, r |-> r]

\* what endTransmission() may return: 0 is success, 2 is "address not acknowledged"
EndStatus == {0, 2}

\* what available() may report after a request for n bytes
Counts(n) == {0} \cup ((n - 1) .. (n + MaxExtra))

\* what requestFrom() may return for a request of n bytes
ReqCounts(n) == {0, n}

\* a debug line, printed only when the debug flag is set
Debug(self, line) == IF self.m_fDebug THEN <<line>> ELSE <<>>

\* Faulty variant of writeCommand that writes the low byte of the opcode
\* first.  C15_OneTransactionPerCommand must reject it.
writeCommand_LowByteFirst(self, c, result) ==
    LET cbits == Opcode(c)
        addr  == self.m_addr
    IN  IF addr < 0
        THEN [ok |-> FALSE, wire |-> <<>>,
              serial |-> Debug(self, "writeCommand: bad address")]
        ELSE [ok |-> (result = 0),
              wire |-> << Ev("beginTransmission", addr, 0, 0),
                          Ev("write", LoByte(cbits), 0, 0),
                          Ev("write", HiByte(cbits), 0, 0),
                          Ev("endTransmission", 0, 0, result) >>,
              serial |-> IF result # 0
                         THEN Debug(self, "writeCommand: error writing command")
                         ELSE <<>>]

\* Faulty variant of writeCommand that does not look at the status
\* endTransmission() returns.  C5_NoRetryAfterFailedWrite must reject it.
writeCommand_IgnoresStatus(self, c, result) ==
    LET cbits == Opcode(c)
        addr  == self.m_addr
    IN  IF addr < 0
        THEN [ok |-> FALSE, wire |-> <<>>,
              serial |-> Debug(self, "writeCommand: bad address")]
        ELSE [ok |-> TRUE,
              wire |-> << Ev("beginTransmission", addr, 0, 0),
                          Ev("write", HiByte(cbits), 0, 0),
                          Ev("write", LoByte(cbits), 0, 0),
                          Ev("endTransmission", 0, 0, result) >>,
              serial |-> <<>>]

(***************************************************************************)
(* cSHT_3x::writeCommand.  result is what endTransmission() returns.       *)
(***************************************************************************)
writeCommand(self, c, result) ==
    LET cbits == Opcode(c)
        addr  == self.m_addr
    IN  IF addr < 0
        THEN [ok |-> FALSE, wire |-> <<>>,
              serial |-> Debug(self, "writeCommand: bad address")]
        ELSE [ok |-> (result = 0),
              wire |-> << Ev("beginTransmission", addr, 0, 0),
                          Ev("write", HiByte(cbits), 0, 0),
                          Ev("write", LoByte(cbits), 0, 0),
                          Ev("endTransmission", 0, 0, result) >>,
              serial |-> IF result # 0
                         THEN Debug(self, "writeCommand: error writing command")
                         ELSE <<>>]

(***************************************************************************)
(* cSHT_3x::readResponse for a buffer of nBuf bytes.  nReadFrom is what    *)
(* requestFrom() returns, nResult what available() returns, stream the     *)
(* bytes read() hands out.  The loop stores nResult bytes whatever nBuf    *)
(* is: a store at an index >= nBuf is outside the caller's array, which    *)
(* is undefined behaviour.  buf holds the stores inside the array; oob     *)
(* says that a store fell outside it.  The array lives in the caller's     *)
(* frame beside the caller's result flag, so after such a store the        *)
(* caller may see the comparison's value (false) or the opposite: clobber  *)
(* chooses.                                                                *)
(***************************************************************************)
readResponse(self, nBuf, nReadFrom, nResult, stream, clobber) ==
    LET addr == self.m_addr
    IN  IF nBuf > 32 \/ addr < 0
        THEN [ok |-> FALSE, buf |-> <<>>, wire |-> <<>>, oob |-> FALSE,
              serial |-> Debug(self, "readResponse: invalid parameter")]
        ELSE [ok     |-> IF nResult > nBuf THEN clobber ELSE (nResult = nBuf),
              buf    |-> [i \in 1 .. Min(nResult, nBuf) |-> stream[i]],
              oob    |-> nResult > nBuf,
              wire   |-> << Ev("requestFrom", addr, nBuf, nReadFrom),
                            Ev("available", 0, 0, nResult) >>
                         \o [i \in 1 .. nResult |-> Ev("read", 0, 0, stream[i])],
              serial |-> (IF nReadFrom # nBuf
                          THEN Debug(self, "readResponse: nReadFrom != nBuf")
                          ELSE <<>>)
                         \o (IF nResult # nBuf
                             THEN Debug(self, "readResponse: nResult != nBuf")
                             ELSE <<>>)]

\* Faulty variant of processResultsRaw that checks the checksum of the
\* temperature group only.  C17_AcceptedResponse must reject it.
processResultsRaw_FirstGroupOnly(self, buf) ==
    [ok |-> IF ~ self.m_noCrc
            THEN ~ (crc(SubSeq(buf, 1, 2), 2, crcInit) # buf[3])
            ELSE TRUE,
     tfrac |-> buf[1] * 256 + buf[2], rhfrac |-> buf[4] * 256 + buf[5]]

\* Faulty variant of processResultsRaw that checks the checksums even when
\* m_noCrc is set.  C3_CorruptChecksum must reject it.
processResultsRaw_AlwaysChecks(self, buf) ==
    [ok |-> ~ (crc(SubSeq(buf, 1, 2), 2, crcInit) # buf[3]
               \/ crc(SubSeq(buf, 4, 5), 2, crcInit) # buf[6]),
     tfrac |-> buf[1] * 256 + buf[2], rhfrac |-> buf[4] * 256 + buf[5]]

(***************************************************************************)
(* cSHT_3x::processResultsRaw: buf is the 6-byte array (1-based here).     *)
(* tfrac and rhfrac are assigned before the checksums are looked at.       *)
(***************************************************************************)
processResultsRaw(self, buf) ==
    LET tfrac  == buf[1] * 256 + buf[2]
        rhfrac == buf[4] * 256 + buf[5]
    IN  [ok |-> IF ~ self.m_noCrc
                THEN ~ (crc(SubSeq(buf, 1, 2), 2, crcInit) # buf[3]
                        \/ crc(SubSeq(buf, 4, 5), 2, crcInit) # buf[6])
                ELSE TRUE,
         tfrac |-> tfrac, rhfrac |-> rhfrac]

(***************************************************************************)
(* The public methods.  Each operator runs one method on the transport     *)
(* answers e and yields what the call did: ret (the return value), t and   *)
(* rh (the output parameters afterwards), wire, serial and oob.            *)
(***************************************************************************)
\* a step that was not taken
Skipped == [ok |-> FALSE, buf |-> <<>>, wire |-> <<>>, serial |-> <<>>, oob |-> FALSE]

\* Faulty variant of reset that waits the 10 ms whether or not the write
\* succeeded.  C12_ResetWriteOnly must reject it.
reset_AlwaysDelays(self, result) ==
    LET w == writeCommand(self, "SoftReset", result)
    IN  [ret |-> w.ok, wire |-> w.wire \o <<Ev("delay", 10, 0, 0)>>,
         serial |-> w.serial]

\* cSHT_3x::reset
reset(self, result) ==
    LET w == writeCommand(self, "SoftReset", result)
    IN  IF w.ok
        THEN [ret |-> TRUE, wire |-> w.wire \o <<Ev("delay", 10, 0, 0)>>,
              serial |-> w.serial]
        ELSE [ret |-> FALSE, wire |-> w.wire, serial |-> w.serial]

\* Faulty variant of begin that resets the device before the bus is
\* opened.  C18_BeginAndEnd must reject it.
begin_ResetBeforeOpen(self, result) ==
    LET rs == reset(self, result)
    IN  [ret |-> rs.ret, wire |-> rs.wire \o <<Ev("begin", 0, 0, 0)>>,
         serial |-> rs.serial]

\* cSHT_3x::begin
begin(self, result) ==
    LET rs == reset(self, result)
    IN  [ret |-> rs.ret, wire |-> <<Ev("begin", 0, 0, 0)>> \o rs.wire,
         serial |-> rs.serial]

\* cSHT_3x::end (returns nothing)
end(self, result) ==
    LET rs == reset(self, result)
    IN  [ret |-> "void", wire |-> rs.wire, serial |-> rs.serial]

\* cSHT_3x::getStatus
getStatus(self, e) ==
    LET w   == writeCommand(self, "GetStatus", e.result)
        rd  == IF w.ok
               THEN readResponse(self, 3, e.nReadFrom, e.nResult, e.stream, e.clobber)
               ELSE Skipped
        ok1 == w.ok /\ rd.ok
        ok2 == IF ok1 /\ ~ self.m_noCrc
               THEN crc(rd.buf, 2, crcInit) = rd.buf[3]
               ELSE ok1
    IN  [ret    |-> IF ok2 THEN Status_t(rd.buf[1] * 256 + rd.buf[2])
                    ELSE Status_t_invalid,
         wire   |-> w.wire \o rd.wire,
         serial |-> w.serial \o rd.serial,
         oob    |-> rd.oob]

\* cSHT_3x::getHeater
getHeater(self, e) ==
    LET st == getStatus(self, e)
    IN  [ret |-> (isValid(st.ret) /\ isHeaterOn(st.ret)),
         wire |-> st.wire, serial |-> st.serial, oob |-> st.oob]

\* Faulty variant of getTemperatureHumidityRaw without the test for
\* Command::Error.  C9_ErrorNeverSent must reject it.
getTemperatureHumidityRaw_NoErrorCheck(self, t, rh, r, e) ==
    LET c  == getCommand("Single", r, "Disabled")
        w  == writeCommand(self, c, e.result)
        rd == IF w.ok
              THEN readResponse(self, 6, e.nReadFrom, e.nResult, e.stream, e.clobber)
              ELSE Skipped
        f2 == w.ok /\ rd.ok
        pr == IF f2 THEN processResultsRaw(self, rd.buf)
              ELSE [ok |-> FALSE, tfrac |-> 0, rhfrac |-> 0]
    IN  [ret    |-> f2 /\ pr.ok,
         t      |-> IF f2 THEN Num(pr.tfrac) ELSE t,
         rh     |-> IF f2 THEN Num(pr.rhfrac) ELSE rh,
         wire   |-> w.wire
                    \o (IF w.ok THEN <<Ev("delay", 20, 0, 0)>> ELSE <<>>)
                    \o rd.wire,
         serial |-> w.serial \o rd.serial,
         oob    |-> rd.oob]

\* cSHT_3x::getTemperatureHumidityRaw: t and rh are the caller's values
getTemperatureHumidityRaw(self, t, rh, r, e) ==
    LET c  == getCommand("Single", r, "Disabled")
        f0 == c # "Error"
        s0 == IF f0 THEN <<>>
              ELSE Debug(self, "getTemperatureHumidityRaw: Illegal repeatability")
        w  == IF f0 THEN writeCommand(self, c, e.result) ELSE Skipped
        f1 == f0 /\ w.ok
        s1 == IF f0 /\ ~ f1
              THEN Debug(self, "getTemperatureHumidityRaw: writeCommand failed")
              ELSE <<>>
        rd == IF f1
              THEN readResponse(self, 6, e.nReadFrom, e.nResult, e.stream, e.clobber)
              ELSE Skipped
        f2 == f1 /\ rd.ok
        s2 == IF f1 /\ ~ f2
              THEN Debug(self, "getTemperatureHumidityRaw: readResponse failed")
              ELSE <<>>
        pr == IF f2 THEN processResultsRaw(self, rd.buf)
              ELSE [ok |-> FALSE, tfrac |-> 0, rhfrac |-> 0]
        f3 == f2 /\ pr.ok
        s3 == IF f2 /\ ~ f3
              THEN Debug(self, "getTemperatureHumidityRaw: processResultsRaw failed")
              ELSE <<>>
    IN  [ret    |-> f3,
         t      |-> IF f2 THEN Num(pr.tfrac) ELSE t,
         rh     |-> IF f2 THEN Num(pr.rhfrac) ELSE rh,
         wire   |-> w.wire
                    \o (IF f1 THEN <<Ev("delay", 20, 0, 0)>> ELSE <<>>)
                    \o rd.wire,
         serial |-> s0 \o w.serial \o s1 \o rd.serial \o s2 \o s3,
         oob    |-> rd.oob]

\* the locals tfrac, rhfrac of the float methods before the raw call; they
\* are read only after a raw call that assigned them
Unset == Num(0)

\* cSHT_3x::getTemperatureHumidity
getTemperatureHumidity(self, t, rh, r, e) ==
    LET raw == getTemperatureHumidityRaw(self, Unset, Unset, r, e)
    IN  [ret    |-> raw.ret,
         t      |-> IF raw.ret THEN rawTtoCelsius(raw.t.num) ELSE NAN,
         rh     |-> IF raw.ret THEN rawRHtoPercent(raw.rh.num) ELSE NAN,
         wire   |-> raw.wire, serial |-> raw.serial, oob |-> raw.oob]

\* Faulty variant of startPeriodicMeasurement without the early return for
\* an interval of 0.  C7_NonPeriodicTouchesNothing must reject it.
startPeriodicMeasurement_NoZeroCheck(self, c, result1, result2) ==
    LET result == PeriodicityToMillis(getPeriodicity(c))
        w1     == writeCommand(self, "Break", result1)
        w2     == writeCommand(self, c, result2)
    IN  IF ~ w1.ok
        THEN [ret |-> 0, wire |-> w1.wire, serial |-> w1.serial]
        ELSE IF ~ w2.ok
        THEN [ret |-> 0, wire |-> w1.wire \o w2.wire,
              serial |-> w1.serial \o w2.serial]
        ELSE [ret |-> result, wire |-> w1.wire \o w2.wire,
              serial |-> w1.serial \o w2.serial]

\* Faulty variant of startPeriodicMeasurement that sends the command even
\* when the Break write failed.  C8_BreakThenStart must reject it.
startPeriodicMeasurement_IgnoresBreak(self, c, result1, result2) ==
    LET result == PeriodicityToMillis(getPeriodicity(c))
        w1     == writeCommand(self, "Break", result1)
        w2     == writeCommand(self, c, result2)
    IN  IF result = 0
        THEN [ret |-> result, wire |-> <<>>, serial |-> <<>>]
        ELSE IF ~ w2.ok
        THEN [ret |-> 0, wire |-> w1.wire \o w2.wire,
              serial |-> w1.serial \o w2.serial]
        ELSE [ret |-> result, wire |-> w1.wire \o w2.wire,
              serial |-> w1.serial \o w2.serial]

\* cSHT_3x::startPeriodicMeasurement: result1 and result2 are what the two
\* endTransmission() calls return
startPeriodicMeasurement(self, c, result1, result2) ==
    LET result == PeriodicityToMillis(getPeriodicity(c))
        w1     == writeCommand(self, "Break", result1)
        w2     == writeCommand(self, c, result2)
    IN  IF result = 0
        THEN [ret |-> result, wire |-> <<>>, serial |-> <<>>]
        ELSE IF ~ w1.ok
        THEN [ret |-> 0, wire |-> w1.wire, serial |-> w1.serial]
        ELSE IF ~ w2.ok
        THEN [ret |-> 0, wire |-> w1.wire \o w2.wire,
              serial |-> w1.serial \o w2.serial]
        ELSE [ret |-> result, wire |-> w1.wire \o w2.wire,
              serial |-> w1.serial \o w2.serial]

\* cSHT_3x::getPeriodicMeasurementRaw
getPeriodicMeasurementRaw(self, tfrac, rhfrac, e) ==
    LET w  == writeCommand(self, "Fetch", e.result)
        rd == IF w.ok
              THEN readResponse(self, 6, e.nReadFrom, e.nResult, e.stream, e.clobber)
              ELSE Skipped
        f2 == w.ok /\ rd.ok
        pr == IF f2 THEN processResultsRaw(self, rd.buf)
              ELSE [ok |-> FALSE, tfrac |-> 0, rhfrac |-> 0]
    IN  [ret    |-> f2 /\ pr.ok,
         t      |-> IF f2 THEN Num(pr.tfrac) ELSE tfrac,
         rh     |-> IF f2 THEN Num(pr.rhfrac) ELSE rhfrac,
         wire   |-> w.wire \o rd.wire,
         serial |-> w.serial \o rd.serial,
         oob    |-> rd.oob]

\* cSHT_3x::getPeriodicMeasurement
getPeriodicMeasurement(self, t, rh, e) ==
    LET raw == getPeriodicMeasurementRaw(self, Unset, Unset, e)
    IN  IF ~ raw.ret
        THEN [ret |-> FALSE, t |-> t, rh |-> rh,
              wire |-> raw.wire, serial |-> raw.serial, oob |-> raw.oob]
        ELSE [ret |-> raw.ret,
              t   |-> rawTtoCelsius(raw.t.num),
              rh  |-> rawRHtoPercent(raw.rh.num),
              wire |-> raw.wire, serial |-> raw.serial, oob |-> raw.oob]

(***************************************************************************)
(* The inputs the actions draw from.                                       *)
(***************************************************************************)
\* the driver objects a caller may construct
Objects == [m_addr : Addresses, m_noCrc : BOOLEAN, m_fDebug : BOOLEAN]

\* 16-bit status words the device may hold: zero, and 0x2066 (bit 13, the
\* heater bit, is set)
StatusVals == {0, 8294}

\* measurements <<temperature fraction, humidity fraction>> the device may
\* hold: <<0x6666, 0x4000>> and <<0x2066, 0>>
MeasVals == { <<26214, 16384>>, <<8294, 0>> }

\* a checksum byte that is not the checksum
Corrupt(c) == (c + 1) % 256

\* the 3 bytes the device sends for one 16-bit word; good says whether the
\* checksum byte is the right one
Group(v, good) ==
    LET cs == crc(<<HiByte(v), LoByte(v)>>, 2, crcInit)
    IN  <<HiByte(v), LoByte(v), IF good THEN cs ELSE Corrupt(cs)>>

\* bytes the transport hands out past the end of a response
Extra == [i \in 1 .. MaxExtra |-> 165]

MeasStreams ==
    { Group(m[1], k1) \o Group(m[2], k2) \o Extra :
        m \in MeasVals, k1 \in BOOLEAN, k2 \in BOOLEAN }

StatusStreams == { Group(sv, k) \o Extra : sv \in StatusVals, k \in BOOLEAN }

\* the transport answers of a call whose command write fails
WriteFailEnv ==
    { [result |-> s, nReadFrom |-> 0, nResult |-> 0, stream |-> <<>>,
       clobber |-> FALSE] : s \in EndStatus \ {0} }

\* the transport answers of a call whose command write succeeds and that
\* reads nBuf bytes; only the bytes actually read are kept
ReadEnv(nBuf, streams) ==
    UNION { { [result |-> 0, nReadFrom |-> q, nResult |-> n,
               stream |-> SubSeq(st, 1, n), clobber |-> x] :
                q \in ReqCounts(nBuf), st \in streams,
                x \in (IF n > nBuf THEN BOOLEAN ELSE {FALSE}) } :
            n \in Counts(nBuf) }

MeasEnv == WriteFailEnv \cup ReadEnv(6, MeasStreams)
StatusEnv == WriteFailEnv \cup ReadEnv(3, StatusStreams)

\* what the caller's output variables hold before a call
PriorRaw == { [t |-> Num(43981), rh |-> Num(4660)] }
PriorFloat == { [t |-> Num(20 * 65535), rh |-> Num(50 * 65535)] }

\* for the methods without output parameters
NoOut == [t |-> Num(0), rh |-> Num(0)]

(***************************************************************************)
(* What one call leaves behind: the values of the variables after it.      *)
(***************************************************************************)
\* a call of a method without output parameters
Plain(self, name, a, o, ob) ==
    [this |-> self, op |-> name, arg |-> a, ret |-> o.ret,
     pre |-> NoOut, out |-> NoOut,
     wireLog |-> o.wire, serialLog |-> o.serial, oob |-> ob]

\* a call of a method with the output parameters t and rh, which held p
Measure(self, name, a, p, o) ==
    [this |-> self, op |-> name, arg |-> a, ret |-> o.ret,
     pre |-> p, out |-> [t |-> o.t, rh |-> o.rh],
     wireLog |-> o.wire, serialLog |-> o.serial, oob |-> o.oob]

\* Every call of each method, on every object: the method is run once for
\* each object and each input, and the actions below pick from the results.
beginCalls ==
    { Plain(self, "begin", "-", begin(self, s), FALSE) :
        self \in Objects, s \in EndStatus }

endCalls ==
    { Plain(self, "end", "-", end(self, s), FALSE) :
        self \in Objects, s \in EndStatus }

resetCalls ==
    { Plain(self, "reset", "-", reset(self, s), FALSE) :
        self \in Objects, s \in EndStatus }

getStatusCalls ==
    { LET o == getStatus(self, e) IN Plain(self, "getStatus", "-", o, o.oob) :
        self \in Objects, e \in StatusEnv }

getHeaterCalls ==
    { LET o == getHeater(self, e) IN Plain(self, "getHeater", "-", o, o.oob) :
        self \in Objects, e \in StatusEnv }

getTemperatureHumidityCalls ==
    { Measure(self, "getTemperatureHumidity", r, p,
              getTemperatureHumidity(self, p.t, p.rh, r, e)) :
        self \in Objects, r \in Repeatabilities, p \in PriorFloat, e \in MeasEnv }

getTemperatureHumidityRawCalls ==
    { Measure(self, "getTemperatureHumidityRaw", r, p,
              getTemperatureHumidityRaw(self, p.t, p.rh, r, e)) :
        self \in Objects, r \in Repeatabilities, p \in PriorRaw, e \in MeasEnv }

startPeriodicMeasurementCalls ==
    { Plain(self, "startPeriodicMeasurement", c,
            startPeriodicMeasurement(self, c, s1, s2), FALSE) :
        self \in Objects, c \in Commands, s1 \in EndStatus, s2 \in EndStatus }

getPeriodicMeasurementCalls ==
    { Measure(self, "getPeriodicMeasurement", "-", p,
              getPeriodicMeasurement(self, p.t, p.rh, e)) :
        self \in Objects, p \in PriorFloat, e \in MeasEnv }

getPeriodicMeasurementRawCalls ==
    { Measure(self, "getPeriodicMeasurementRaw", "-", p,
              getPeriodicMeasurementRaw(self, p.t, p.rh, e)) :
        self \in Objects, p \in PriorRaw, e \in MeasEnv }

(***************************************************************************)
(* The state machine.                                                      *)
(***************************************************************************)
\* the object after construction: any address and flags, nothing called yet
Init ==
    /\ this \in Objects
    /\ op = "none"
    /\ arg = "-"
    /\ ret = "void"
    /\ pre = NoOut
    /\ out = NoOut
    /\ wireLog = <<>>
    /\ serialLog = <<>>
    /\ oob = FALSE

\* One action per public method: the caller calls it on this object, with
\* any input and any answers of the transport.
\* begin()
Begin ==
    \E c \in beginCalls :
        /\ c.this = this
        /\ op' = c.op
        /\ arg' = c.arg
        /\ ret' = c.ret
        /\ pre' = c.pre
        /\ out' = c.out
        /\ wireLog' = c.wireLog
        /\ serialLog' = c.serialLog
        /\ oob' = c.oob
        /\ UNCHANGED this

\* end()
End ==
    \E c \in endCalls :
        /\ c.this = this
        /\ op' = c.op
        /\ arg' = c.arg
        /\ ret' = c.ret
        /\ pre' = c.pre
        /\ out' = c.out
        /\ wireLog' = c.wireLog
        /\ serialLog' = c.serialLog
        /\ oob' = c.oob
        /\ UNCHANGED this

\* reset()
Reset ==
    \E c \in resetCalls :
        /\ c.this = this
        /\ op' = c.op
        /\ arg' = c.arg
        /\ ret' = c.ret
        /\ pre' = c.pre
        /\ out' = c.out
        /\ wireLog' = c.wireLog
        /\ serialLog' = c.serialLog
        /\ oob' = c.oob
        /\ UNCHANGED this

\* getStatus()
GetStatus ==
    \E c \in getStatusCalls :
        /\ c.this = this
        /\ op' = c.op
        /\ arg' = c.arg
        /\ ret' = c.ret
        /\ pre' = c.pre
        /\ out' = c.out
        /\ wireLog' = c.wireLog
        /\ serialLog' = c.serialLog
        /\ oob' = c.oob
        /\ UNCHANGED this

\* getHeater()
GetHeater ==
    \E c \in getHeaterCalls :
        /\ c.this = this
        /\ op' = c.op
        /\ arg' = c.arg
        /\ ret' = c.ret
        /\ pre' = c.pre
        /\ out' = c.out
        /\ wireLog' = c.wireLog
        /\ serialLog' = c.serialLog
        /\ oob' = c.oob
        /\ UNCHANGED this

\* getTemperatureHumidity(t, rh, r)
GetTemperatureHumidity ==
    \E c \in getTemperatureHumidityCalls :
        /\ c.this = this
        /\ op' = c.op
        /\ arg' = c.arg
        /\ ret' = c.ret
        /\ pre' = c.pre
        /\ out' = c.out
        /\ wireLog' = c.wireLog
        /\ serialLog' = c.serialLog
        /\ oob' = c.oob
        /\ UNCHANGED this

\* getTemperatureHumidityRaw(t, rh, r)
GetTemperatureHumidityRaw ==
    \E c \in getTemperatureHumidityRawCalls :
        /\ c.this = this
        /\ op' = c.op
        /\ arg' = c.arg
        /\ ret' = c.ret
        /\ pre' = c.pre
        /\ out' = c.out
        /\ wireLog' = c.wireLog
        /\ serialLog' = c.serialLog
        /\ oob' = c.oob
        /\ UNCHANGED this

\* startPeriodicMeasurement(c)
StartPeriodicMeasurement ==
    \E c \in startPeriodicMeasurementCalls :
        /\ c.this = this
        /\ op' = c.op
        /\ arg' = c.arg
        /\ ret' = c.ret
        /\ pre' = c.pre
        /\ out' = c.out
        /\ wireLog' = c.wireLog
        /\ serialLog' = c.serialLog
        /\ oob' = c.oob
        /\ UNCHANGED this

\* getPeriodicMeasurement(t, rh)
GetPeriodicMeasurement ==
    \E c \in getPeriodicMeasurementCalls :
        /\ c.this = this
        /\ op' = c.op
        /\ arg' = c.arg
        /\ ret' = c.ret
        /\ pre' = c.pre
        /\ out' = c.out
        /\ wireLog' = c.wireLog
        /\ serialLog' = c.serialLog
        /\ oob' = c.oob
        /\ UNCHANGED this

\* getPeriodicMeasurementRaw(tfrac, rhfrac)
GetPeriodicMeasurementRaw ==
    \E c \in getPeriodicMeasurementRawCalls :
        /\ c.this = this
        /\ op' = c.op
        /\ arg' = c.arg
        /\ ret' = c.ret
        /\ pre' = c.pre
        /\ out' = c.out
        /\ wireLog' = c.wireLog
        /\ serialLog' = c.serialLog
        /\ oob' = c.oob
        /\ UNCHANGED this

Next ==
    \/ Begin
    \/ End
    \/ Reset
    \/ GetStatus
    \/ GetHeater
    \/ GetTemperatureHumidity
    \/ GetTemperatureHumidityRaw
    \/ StartPeriodicMeasurement
    \/ GetPeriodicMeasurement
    \/ GetPeriodicMeasurementRaw

Spec == Init /\ [][Next]_vars

(***************************************************************************)
(* Observations on the last call, used by the properties below.            *)
(***************************************************************************)
\* positions in wireLog of the calls of one transport function
At(call) == { i \in DOMAIN wireLog : wireLog[i].call = call }

\* the bytes read() handed out, in order
ReadBytes ==
    LET rd == SelectSeq(wireLog, LAMBDA ev : ev.call = "read")
    IN  [i \in 1 .. Len(rd) |-> rd[i].r]

\* available() was called and reported n
AvailableIs(n) == \E i \in At("available") : wireLog[i].r = n

\* requestFrom() was called and returned something else than the count asked for
RequestMismatch == \E i \in At("requestFrom") : wireLog[i].r # wireLog[i].y

\* the command write of a single-command method did not succeed
WriteFailed ==
    \/ this.m_addr < 0
    \/ \E i \in At("endTransmission") : wireLog[i].r # 0

\* the opcode sent by the transaction that begins at position i
SentOpcode(i) == wireLog[i + 1].x * 256 + wireLog[i + 2].x

\* the checksum byte that follows the two bytes at position k is the right one
GroupOK(bytes, k) == crc(<<bytes[k], bytes[k + 1]>>, 2, crcInit) = bytes[k + 2]

\* the raw pair a 6-byte response carries, big-endian
Decoded(bytes) ==
    [t |-> Num(bytes[1] * 256 + bytes[2]), rh |-> Num(bytes[4] * 256 + bytes[5])]

\* the Celsius / percent values of a 6-byte response
Converted(bytes) ==
    [t  |-> rawTtoCelsius(bytes[1] * 256 + bytes[2]),
     rh |-> rawRHtoPercent(bytes[4] * 256 + bytes[5])]

BoolMethods ==
    {"begin", "reset", "getHeater", "getTemperatureHumidity",
     "getTemperatureHumidityRaw", "getPeriodicMeasurement",
     "getPeriodicMeasurementRaw"}

\* the last call told its caller that it failed (end() returns nothing)
ReportsFailure ==
    CASE op \in BoolMethods                -> ret = FALSE
      [] op = "getStatus"                  -> ~ ret.valid
      [] op = "startPeriodicMeasurement"   -> ret = 0
      [] OTHER                             -> TRUE

(***************************************************************************)
(* C1.  getPeriodicMeasurement on a failing path (the Fetch write fails,   *)
(* the read does not deliver 6 bytes, or a checksum mismatches while       *)
(* checking is enabled) returns false and sets t and rh to NAN.            *)
(***************************************************************************)
C1_PeriodicFailureSetsNaN ==
    (/\ op = "getPeriodicMeasurement"
     /\ \/ WriteFailed
        \/ ~ AvailableIs(6)
        \/ (~ this.m_noCrc /\ ~ (GroupOK(ReadBytes, 1) /\ GroupOK(ReadBytes, 4))))
    => (ret = FALSE /\ out.t = NAN /\ out.rh = NAN)

(***************************************************************************)
(* C2.  getTemperatureHumidity returns true with t and rh converted from   *)
(* the response exactly when every stage succeeds (the command is not      *)
(* Error, the write succeeds, the read delivers the 6 bytes asked for, the *)
(* checksums match or are not checked); otherwise it returns false with    *)
(* t and rh set to NAN.                                                    *)
(***************************************************************************)
C2_AllStagesSucceed ==
    /\ getCommand("Single", arg, "Disabled") # "Error"
    /\ ~ WriteFailed
    /\ AvailableIs(6)
    /\ ~ RequestMismatch
    /\ (this.m_noCrc \/ (GroupOK(ReadBytes, 1) /\ GroupOK(ReadBytes, 4)))

C2_SingleShotContract ==
    op = "getTemperatureHumidity"
    => IF C2_AllStagesSucceed
       THEN ret = TRUE /\ out = Converted(ReadBytes)
       ELSE ret = FALSE /\ out.t = NAN /\ out.rh = NAN

(***************************************************************************)
(* C3.  A raw measurement call that received exactly 6 bytes of which a    *)
(* checksum byte (index 2 or 5) is wrong fails when the integrity check is *)
(* enabled and succeeds when m_noCrc is set.  With m_noCrc set all 6       *)
(* bytes are still read, and the result and the decoded pair are those of  *)
(* bytes 0, 1, 3 and 4 alone, whatever bytes 2 and 5 are.                  *)
(***************************************************************************)
RawMethods == {"getTemperatureHumidityRaw", "getPeriodicMeasurementRaw"}

\* the last call was a raw measurement that got a response of the right size
C3_Processed == op \in RawMethods /\ AvailableIs(6)

C3_ChecksumWrong == ~ GroupOK(ReadBytes, 1) \/ ~ GroupOK(ReadBytes, 4)

C3_CorruptChecksum ==
    C3_Processed
    => /\ Len(ReadBytes) = 6
       /\ out = Decoded(ReadBytes)
       /\ this.m_noCrc => ret = TRUE
       /\ (~ this.m_noCrc /\ C3_ChecksumWrong) => ret = FALSE

C3_Witness ==
    /\ C3_Processed
    /\ C3_ChecksumWrong
    /\ this.m_noCrc
    /\ ret = TRUE

(***************************************************************************)
(* C4.  Whenever requestFrom() returns a count different from the count    *)
(* asked for, the read fails and so does the method that asked.            *)
(***************************************************************************)
C4_RequestMismatchFails == RequestMismatch => ReportsFailure

(***************************************************************************)
(* C5.  A command write that ends with a non-zero endTransmission() status *)
(* is the last thing the method does on the bus: no retry, no delay and no *)
(* read follows it, and a method with a return value reports failure.  No  *)
(* method sends the same command in two transactions.                      *)
(***************************************************************************)
C5_NoRetryAfterFailedWrite ==
    /\ \A i \in At("endTransmission") :
          wireLog[i].r # 0 => (i = Len(wireLog) /\ ReportsFailure)
    /\ \A i \in At("beginTransmission") : \A j \in At("beginTransmission") :
          i # j => SentOpcode(i) # SentOpcode(j)

\* the second write of startPeriodicMeasurement failed
C5_Witness ==
    /\ op = "startPeriodicMeasurement"
    /\ Len(wireLog) = 8
    /\ wireLog[8].call = "endTransmission"
    /\ wireLog[8].r # 0
    /\ ret = 0

(***************************************************************************)
(* C6.  When the transport reports a byte count on the read that differs   *)
(* from the 6 bytes asked for, getTemperatureHumidityRaw returns false and *)
(* leaves t and rh as they were before the call.                           *)
(***************************************************************************)
C6_MismatchLeavesOutputs ==
    (/\ op = "getTemperatureHumidityRaw"
     /\ At("requestFrom") # {}
     /\ (RequestMismatch \/ ~ AvailableIs(6)))
    => (ret = FALSE /\ out = pre)

(***************************************************************************)
(* C7.  startPeriodicMeasurement with a command whose periodicity maps to  *)
(* 0 ms returns 0 and makes no transport call at all.                      *)
(***************************************************************************)
C7_NonPeriodicTouchesNothing ==
    (/\ op = "startPeriodicMeasurement"
     /\ PeriodicityToMillis(getPeriodicity(arg)) = 0)
    => (ret = 0 /\ wireLog = <<>>)

\* a single-shot command given to an object with a usable address
C7_Witness ==
    /\ op = "startPeriodicMeasurement"
    /\ arg = "ModeNoStretchHigh"
    /\ this.m_addr >= 0
    /\ ret = 0
    /\ wireLog = <<>>

(***************************************************************************)
(* C8.  For a command with a non-zero interval, startPeriodicMeasurement   *)
(* sends Break first and the command itself second, the second only after  *)
(* the Break write succeeded; it returns the interval exactly when both    *)
(* writes succeeded and 0 otherwise.                                       *)
(***************************************************************************)
C8_BreakThenStart ==
    (/\ op = "startPeriodicMeasurement"
     /\ PeriodicityToMillis(getPeriodicity(arg)) # 0)
    => LET n    == Len(wireLog)
           both == n = 8 /\ wireLog[4].r = 0 /\ wireLog[8].r = 0
       IN  /\ n \in {0, 4, 8}
           /\ n >= 4 => (wireLog[1].call = "beginTransmission"
                         /\ SentOpcode(1) = Opcode("Break"))
           /\ n = 8 => (wireLog[4].r = 0
                        /\ wireLog[5].call = "beginTransmission"
                        /\ SentOpcode(5) = Opcode(arg))
           /\ (n = 4 /\ this.m_addr >= 0) => wireLog[4].r # 0
           /\ ret = IF both THEN PeriodicityToMillis(getPeriodicity(arg)) ELSE 0

C8_Witness ==
    /\ op = "startPeriodicMeasurement"
    /\ arg = "Mode1Medium"
    /\ Len(wireLog) = 8
    /\ ret = 1000

(***************************************************************************)
(* C9.  When the single-shot command of the given repeatability is Error,  *)
(* getTemperatureHumidityRaw and getTemperatureHumidity return false and   *)
(* make no transport call and take no delay; no method ever sends the      *)
(* Error opcode.                                                           *)
(***************************************************************************)
C9_ErrorNeverSent ==
    /\ (/\ op \in {"getTemperatureHumidityRaw", "getTemperatureHumidity"}
        /\ getCommand("Single", arg, "Disabled") = "Error")
       => (ret = FALSE /\ wireLog = <<>>)
    /\ \A i \in At("beginTransmission") : SentOpcode(i) # Opcode("Error")

C9_Witness ==
    /\ op = "getTemperatureHumidityRaw"
    /\ arg = "Invalid"
    /\ this.m_addr >= 0
    /\ ret = FALSE
    /\ wireLog = <<>>

C12_ResetWriteOnly ==
    op = "reset"
    => /\ At("requestFrom") = {} /\ At("available") = {} /\ At("read") = {}
       /\ IF this.m_addr < 0
          THEN wireLog = <<>> /\ ret = FALSE
          ELSE /\ Len(wireLog) >= 4
               /\ At("beginTransmission") = {1}
               /\ SentOpcode(1) = Opcode("SoftReset")
               /\ wireLog[4].call = "endTransmission"
               /\ IF wireLog[4].r = 0
                  THEN /\ ret = TRUE
                       /\ Len(wireLog) = 5
                       /\ wireLog[5] = Ev("delay", 10, 0, 0)
                  ELSE ret = FALSE /\ Len(wireLog) = 4

C12_Witness ==
    /\ op = "reset"
    /\ ret = TRUE
    /\ Len(wireLog) = 5
    /\ wireLog[5].call = "delay"

(***************************************************************************)
(* The checksum routine on its own: crc() applied to every 2-byte buffer   *)
(* with the default initial value, as processResultsRaw and getStatus call *)
(* it.                                                                     *)
(***************************************************************************)
BytePairs == {<<a, b>> : a \in 0 .. 255, b \in 0 .. 255}

CrcInit ==
    /\ this = [m_addr |-> 68, m_noCrc |-> FALSE, m_fDebug |-> FALSE]
    /\ op = "none"
    /\ arg \in BytePairs
    /\ ret = "void"
    /\ pre = NoOut
    /\ out = NoOut
    /\ wireLog = <<>>
    /\ serialLog = <<>>
    /\ oob = FALSE

Crc ==
    /\ op = "none"
    /\ op' = "crc"
    /\ ret' = crc(arg, 2, crcInit)
    /\ UNCHANGED <<this, arg, pre, out, wireLog, serialLog, oob>>

CrcNext == Crc

CrcSpec == CrcInit /\ [][CrcNext]_vars

\* The reference CRC-8: polynomial 0x31, initial value 0xFF, most
\* significant bit first, no reflection, no final xor, one bit at a time.
RECURSIVE RefShift(_, _)
RefShift(c, n) ==
    IF n = 0 THEN c
    ELSE RefShift(IF c >= 128 THEN Xor((c * 2) % 256, 49) ELSE (c * 2) % 256,
                  n - 1)

RefCrc8(bytes) ==
    LET first == RefShift(Xor(255, bytes[1]), 8)
    IN  RefShift(Xor(first, bytes[2]), 8)

(***************************************************************************)
(* C13.  For every one of the 65536 two-byte inputs, crc() with the        *)
(* default initial value returns the bitwise CRC-8 of polynomial 0x31 and  *)
(* initial value 0xFF.                                                     *)
(***************************************************************************)
C13_CrcMatchesReference ==
    op = "crc" => ret = RefCrc8(arg)

C13_Witness ==
    /\ op = "crc"
    /\ arg = <<190, 239>>
    /\ ret = 146

(***************************************************************************)
(* Two calls side by side, for the properties that compare calls.          *)
(***************************************************************************)
\* every call of the method called name
CallsOf(name) ==
    CASE name = "begin"                     -> beginCalls
      [] name = "end"                       -> endCalls
      [] name = "reset"                     -> resetCalls
      [] name = "getStatus"                 -> getStatusCalls
      [] name = "getHeater"                 -> getHeaterCalls
      [] name = "getTemperatureHumidity"    -> getTemperatureHumidityCalls
      [] name = "getTemperatureHumidityRaw" -> getTemperatureHumidityRawCalls
      [] name = "startPeriodicMeasurement"  -> startPeriodicMeasurementCalls
      [] name = "getPeriodicMeasurement"    -> getPeriodicMeasurementCalls
      [] name = "getPeriodicMeasurementRaw" -> getPeriodicMeasurementRawCalls
      [] OTHER                              -> {}

\* what the transport answered during a call, in order: the values
\* returned by endTransmission, requestFrom, available and read
Answers(log) ==
    LET an == SelectSeq(log, LAMBDA ev : ev.call \in
                  {"endTransmission", "requestFrom", "available", "read"})
    IN  [i \in 1 .. Len(an) |-> an[i].r]

IsPrefix(a, b) == Len(a) <= Len(b) /\ SubSeq(b, 1, Len(a)) = a

\* the calls of the same method with the same arguments on an object that
\* differs from this one in the debug flag only, to which the transport
\* gave the same answers as far as both calls asked
DebugTwins ==
    { c \in CallsOf(op) :
        /\ c.this = [this EXCEPT !.m_fDebug = ~ @]
        /\ c.arg = arg
        /\ c.pre = pre
        /\ \/ IsPrefix(Answers(c.wireLog), Answers(wireLog))
           \/ IsPrefix(Answers(wireLog), Answers(c.wireLog)) }

Sends ==
    CASE op \in {"begin", "end", "reset"}  -> <<"SoftReset">>
      [] op \in {"getStatus", "getHeater"} -> <<"GetStatus">>
      [] op \in {"getTemperatureHumidity", "getTemperatureHumidityRaw"}
                                            -> <<getCommand("Single", arg, "Disabled")>>
      [] op = "startPeriodicMeasurement"    -> <<"Break", arg>>
      [] op \in {"getPeriodicMeasurement", "getPeriodicMeasurementRaw"}
                                            -> <<"Fetch">>
      [] OTHER                              -> <<>>

\* positions i .. i + 3 of wireLog are one transaction to this object's
\* address that carries command c: high byte, then low byte
IsTransaction(i, c) ==
    /\ i + 3 <= Len(wireLog)
    /\ wireLog[i].call = "beginTransmission"
    /\ wireLog[i].x = this.m_addr
    /\ wireLog[i + 1].call = "write"
    /\ wireLog[i + 1].x = HiByte(Opcode(c))
    /\ wireLog[i + 2].call = "write"
    /\ wireLog[i + 2].x = LoByte(Opcode(c))
    /\ wireLog[i + 3].call = "endTransmission"

\* the positions where the transactions of the last call begin, in order
Begins ==
    LET b == SelectSeq([i \in 1 .. Len(wireLog) |-> i],
                       LAMBDA i : wireLog[i].call = "beginTransmission")
    IN  b

(***************************************************************************)
(* C15.  Every command goes out as one transaction to the configured       *)
(* address: beginTransmission, the high byte of the opcode, its low byte,  *)
(* endTransmission, and nothing else is written; every byte write and      *)
(* every endTransmission belongs to such a transaction, so no transaction  *)
(* is open when the call returns, successful or not.                       *)
(***************************************************************************)
C15_OneTransactionPerCommand ==
    /\ Len(Begins) <= Len(Sends)
    /\ \A k \in 1 .. Len(Begins) : IsTransaction(Begins[k], Sends[k])
    /\ \A j \in At("write") :
           \/ j - 1 \in At("beginTransmission")
           \/ j - 2 \in At("beginTransmission")
    /\ \A j \in At("endTransmission") : j - 3 \in At("beginTransmission")
    /\ Cardinality(At("write")) = 2 * Cardinality(At("beginTransmission"))
    /\ Cardinality(At("endTransmission")) = Cardinality(At("beginTransmission"))

C15_Witness ==
    /\ op = "startPeriodicMeasurement"
    /\ Len(Begins) = 2
    /\ ret = 1000
    /\ SentOpcode(5) = 8486

\* the last call decoded a response: it wrote its outputs from one
DecodeRan ==
    CASE op \in {"getTemperatureHumidityRaw", "getPeriodicMeasurementRaw",
                 "getPeriodicMeasurement"}  -> out # pre
      [] op = "getTemperatureHumidity"      -> out.t # NAN
      [] OTHER                              -> FALSE

\* the transport calls from position i on are one read of 6 bytes: the
\* request, the count, and as many read() calls as the count says
IsRead6(i) ==
    /\ i + 1 <= Len(wireLog)
    /\ wireLog[i].call = "requestFrom"
    /\ wireLog[i].x = this.m_addr
    /\ wireLog[i].y = 6
    /\ wireLog[i + 1].call = "available"
    /\ Len(wireLog) = i + 1 + wireLog[i + 1].r
    /\ \A j \in i + 2 .. Len(wireLog) : wireLog[j].call = "read"

\* the read that begins at position i delivered what was asked for
Read6Succeeded(i) == wireLog[i].r = 6 /\ wireLog[i + 1].r = 6

(***************************************************************************)
(* C16.  A single-shot measurement runs command write, 20 ms delay, 6-byte *)
(* read request, decode, in this order, each step only if all steps before *)
(* it succeeded; a periodic fetch runs Fetch write, then the 6-byte read   *)
(* with no delay, the read only after a successful write, the decode only  *)
(* after a successful read.                                                *)
(***************************************************************************)
C16_StepsInOrder ==
    /\ op \in {"getTemperatureHumidity", "getTemperatureHumidityRaw"}
       => IF Sends[1] = "Error" \/ this.m_addr < 0
          THEN wireLog = <<>> /\ ~ DecodeRan
          ELSE /\ IsTransaction(1, Sends[1])
               /\ IF wireLog[4].r # 0
                  THEN Len(wireLog) = 4 /\ ~ DecodeRan
                  ELSE /\ Len(wireLog) >= 5
                       /\ wireLog[5] = Ev("delay", 20, 0, 0)
                       /\ IsRead6(6)
                       /\ DecodeRan => Read6Succeeded(6)
    /\ op \in {"getPeriodicMeasurement", "getPeriodicMeasurementRaw"}
       => IF this.m_addr < 0
          THEN wireLog = <<>> /\ ~ DecodeRan
          ELSE /\ IsTransaction(1, "Fetch")
               /\ IF wireLog[4].r # 0
                  THEN Len(wireLog) = 4 /\ ~ DecodeRan
                  ELSE /\ IsRead6(5)
                       /\ DecodeRan => Read6Succeeded(5)

(***************************************************************************)
(* C17.  When a raw measurement method accepts a 6-byte response, the      *)
(* temperature fraction is 256 * buf[0] + buf[1] and the humidity fraction *)
(* 256 * buf[3] + buf[4]; with checksum checking enabled the response is   *)
(* accepted only if crc(buf[0], buf[1]) = buf[2] and crc(buf[3], buf[4]) = *)
(* buf[5], each computed from the initial value.                           *)
(***************************************************************************)
C17_AcceptedResponse ==
    (op \in RawMethods /\ ret = TRUE /\ AvailableIs(6))
    => /\ out.t = Num(ReadBytes[1] * 256 + ReadBytes[2])
       /\ out.rh = Num(ReadBytes[4] * 256 + ReadBytes[5])
       /\ ~ this.m_noCrc
          => /\ crc(<<ReadBytes[1], ReadBytes[2]>>, 2, 255) = ReadBytes[3]
             /\ crc(<<ReadBytes[4], ReadBytes[5]>>, 2, 255) = ReadBytes[6]

C17_Witness ==
    /\ op = "getPeriodicMeasurementRaw"
    /\ ret = TRUE
    /\ ~ this.m_noCrc
    /\ AvailableIs(6)
    /\ out = [t |-> Num(26214), rh |-> Num(16384)]

(***************************************************************************)
(* C18.  begin opens the bus first, then does one reset (one SoftReset     *)
(* transaction, a 10 ms delay if it succeeded) and returns the reset's     *)
(* result.  end does one reset and nothing else, and returns nothing.      *)
(***************************************************************************)
C18_BeginAndEnd ==
    /\ op = "begin"
       => /\ Len(wireLog) >= 1
          /\ wireLog[1] = Ev("begin", 0, 0, 0)
          /\ At("begin") = {1}
          /\ IF this.m_addr < 0
             THEN Len(wireLog) = 1 /\ ret = FALSE
             ELSE /\ IsTransaction(2, "SoftReset")
                  /\ IF wireLog[5].r = 0
                     THEN /\ Len(wireLog) = 6
                          /\ wireLog[6] = Ev("delay", 10, 0, 0)
                          /\ ret = TRUE
                     ELSE Len(wireLog) = 5 /\ ret = FALSE
    /\ op = "end"
       => /\ ret = "void"
          /\ IF this.m_addr < 0
             THEN wireLog = <<>>
             ELSE /\ IsTransaction(1, "SoftReset")
                  /\ IF wireLog[4].r = 0
                     THEN /\ Len(wireLog) = 5
                          /\ wireLog[5] = Ev("delay", 10, 0, 0)
                     ELSE Len(wireLog) = 4

C18_Witness ==
    /\ op = "begin"
    /\ ret = TRUE
    /\ Len(wireLog) = 6
    /\ wireLog[1].call = "begin"
    /\ wireLog[2].call = "beginTransmission"

(***************************************************************************)
(* C19.  readResponse never stores a byte at an index of buf that is nBuf  *)
(* or more, whatever count available() reports after the request: no call  *)
(* reads more bytes into the buffer than the buffer holds.                 *)
(***************************************************************************)
C19_NoStoreOutsideBuf ==
    /\ oob = FALSE
    /\ \A i \in At("requestFrom") : Cardinality(At("read")) <= wireLog[i].y

\* the last call was a raw measurement that failed before the decoding:
\* no command for the repeatability, a failed command write, or a read
\* that did not report 6 bytes
C20_FailedBeforeDecode ==
    /\ op \in RawMethods
    /\ \/ op = "getTemperatureHumidityRaw"
          /\ getCommand("Single", arg, "Disabled") = "Error"
       \/ WriteFailed
       \/ ~ AvailableIs(6)

====
